---- MODULE Spec2Model ----
(***************************************************************************)
(* plonk_gadgets: the set/vector gadgets of src/src/set.rs and the bit     *)
(* gadget of src/src/bit.rs, run against a StandardComposer.               *)
(*                                                                         *)
(* A composer is the list of witness values it has allocated and the list  *)
(* of gates appended to it.  A Variable is the position of its value in    *)
(* the witness list (positions count from 1 here, from 0 in dusk-plonk).   *)
(* A gate is the PLONK arithmetic constraint                               *)
(*      qM*a*b + qL*a + qR*b + qO*c + qC + PI = 0                          *)
(* over the field.  A gadget is a function of the composer and its inputs  *)
(* that returns the composer it leaves behind and its result.              *)
(***************************************************************************)
EXTENDS Integers, Sequences, FiniteSets

VARIABLES composer, calls

vars == <<composer, calls>>

(* ------------------------------ bounds -------------------------------- *)

\* Longest vector handed to the non-membership, sum and membership gadgets.
MaxLen == 2

\* Longest vector handed to set_uniqueness_gadget.
MaxUniqueLen == 3

\* Longest vector / bits_vector handed directly to vector_product_gadget.
MaxProductLen == 2

\* Largest value of an element of the bits_vector handed directly to
\* vector_product_gadget: the two bits and the non-bits up to it.
MaxBit == 2

\* Longest vector either party hands to a public-set gadget in SpecParties.
MaxPartyLen == 1

\* Gadget calls made one after the other on one composer in SpecSequence.
MaxCalls == 2

(* ------------------------------ the field ----------------------------- *)

\* BlsScalar: a prime field.  The modulus stands for the BLS12-381 scalar
\* field order; every vector length and every u64 is below it, as in the code.
P == 5

BlsScalar == 0..(P - 1)

zero == 0

one == 1

Add(x, y) == (x + y) % P

Sub(x, y) == (x + (P - y)) % P

Mul(x, y) == (x * y) % P

Neg(x) == (P - x) % P

RECURSIVE Pow(_, _)
Pow(x, n) == IF n = 0 THEN 1 ELSE Mul(x, Pow(x, n - 1))

\* BlsScalar::invert: x^(p-2), a CtOption that is_some exactly when x is not zero.
invert(x) == [is_some |-> x # 0, value |-> Pow(x, P - 2)]

\* BlsScalar::from(u64)
from(n) == n % P

(* ------------------------------ the composer -------------------------- *)

Party == {"prover", "verifier"}

Gate(a, b, c, qM, qL, qR, qO, qC, pi) ==
    [a |-> a, b |-> b, c |-> c, qM |-> qM, qL |-> qL, qR |-> qR, qO |-> qO, qC |-> qC, pi |-> pi]

\* Option<BlsScalar> public input: None contributes nothing to the gate.
None == zero

\* The Variable the next allocation returns.
NextVar(cs) == Len(cs.witnesses) + 1

add_input(cs, s) == [cs EXCEPT !.witnesses = Append(@, s)]

poly_gate(cs, a, b, c, qM, qL, qR, qO, qC, pi) ==
    [cs EXCEPT !.gates = Append(@, Gate(a, b, c, qM, qL, qR, qO, qC, pi))]

constrain_to_constant(cs, a, constant, pi) ==
    poly_gate(cs, a, a, a, zero, one, zero, zero, Neg(constant), pi)

\* Allocates the constant and fixes it in the circuit; returns NextVar(cs).
add_witness_to_circuit_description(cs, value) ==
    constrain_to_constant(add_input(cs, value), NextVar(cs), value, None)

\* StandardComposer::new(): the zero variable is the first one allocated.
zero_var == 1

NewComposer == add_witness_to_circuit_description([witnesses |-> <<>>, gates |-> <<>>], zero)

\* composer.add((q_l, a), (q_r, b), q_c, pi): allocates c = q_l*a + q_r*b + q_c + pi
\* and gates it; returns NextVar(cs).
add(cs, q_l, a, q_r, b, q_c, pi) ==
    LET c_eval == Add(Add(Add(Mul(q_l, cs.witnesses[a]), Mul(q_r, cs.witnesses[b])), q_c), pi)
    IN  poly_gate(add_input(cs, c_eval), a, b, NextVar(cs), zero, q_l, q_r, Neg(one), q_c, pi)

\* composer.mul(q_m, a, b, q_c, pi): allocates c = q_m*a*b + q_c + pi and gates it.
mul(cs, q_m, a, b, q_c, pi) ==
    LET c_eval == Add(Add(Mul(q_m, Mul(cs.witnesses[a], cs.witnesses[b])), q_c), pi)
    IN  poly_gate(add_input(cs, c_eval), a, b, NextVar(cs), q_m, zero, zero, Neg(one), q_c, pi)

assert_equal(cs, a, b) ==
    poly_gate(cs, a, b, zero_var, zero, one, Neg(one), zero, zero, None)

\* AllocatedScalar::allocate(composer, scalar): the binder it returns ...
Allocated(cs, scalar) == [var |-> NextVar(cs), scalar |-> scalar]

\* ... and the composer it leaves.
allocate(cs, scalar) == add_input(cs, scalar)

\* The callers' `.map(|x| AllocatedScalar::allocate(cs, *x)).collect()`.
AllocatedVector(cs, scalars) ==
    [i \in 1..Len(scalars) |-> [var |-> Len(cs.witnesses) + i, scalar |-> scalars[i]]]

AllocateAll(cs, scalars) == [cs EXCEPT !.witnesses = @ \o scalars]

(* ------------------------------ results ------------------------------- *)

Ok == "Ok"

NonExistingInverse == "NonExistingInverse"

\* A failed assert!/assert_eq!: the call unwinds, it returns nothing.
Panic == "Panic"

Return(cs, result) == [cs |-> cs, result |-> result]

(* ------------------------------ bit.rs -------------------------------- *)

\* bit_gadget with the multiplication selector of its last gate left at zero.
bit_gadget_without_product(cs, x) ==
    LET one_minus_x == Allocated(cs, Sub(one, x.scalar))
        cs1 == allocate(cs, Sub(one, x.scalar))
        sum == NextVar(cs1)
        cs2 == add(cs1, one, one_minus_x.var, one, x.var, zero, None)
        cs3 == constrain_to_constant(cs2, sum, one, None)
        cs4 == poly_gate(cs3, x.var, one_minus_x.var, zero_var, zero, zero, zero, zero, zero, None)
    IN  Return(cs4, Ok)

\* bit_gadget refusing, at construction, a value that is not a bit.
bit_gadget_rejecting(cs, x) ==
    LET one_minus_x == Allocated(cs, Sub(one, x.scalar))
        cs1 == allocate(cs, Sub(one, x.scalar))
        sum == NextVar(cs1)
        cs2 == add(cs1, one, one_minus_x.var, one, x.var, zero, None)
        cs3 == constrain_to_constant(cs2, sum, one, None)
        cs4 == poly_gate(cs3, x.var, one_minus_x.var, zero_var, one, zero, zero, zero, zero, None)
    IN  IF Mul(x.scalar, one_minus_x.scalar) # zero THEN Return(cs1, NonExistingInverse)
        ELSE Return(cs4, Ok)

bit_gadget(cs, x) ==
    LET one_minus_x == Allocated(cs, Sub(one, x.scalar))
        cs1 == allocate(cs, Sub(one, x.scalar))
        sum == NextVar(cs1)
        cs2 == add(cs1, one, one_minus_x.var, one, x.var, zero, None)
        cs3 == constrain_to_constant(cs2, sum, one, None)
        cs4 == poly_gate(cs3, x.var, one_minus_x.var, zero_var, one, zero, zero, zero, zero, None)
    IN  Return(cs4, Ok)

(* ------------------------------ set.rs -------------------------------- *)

\* The loop body without the assert_equal that ties diff + value to the element.
non_membership_step_untied(cs, elem, value) ==
    LET elem_assigned == NextVar(cs)
        cs1 == add_input(cs, elem)
        cs2 == constrain_to_constant(cs1, elem_assigned, elem, None)
        diff == Sub(elem, value.scalar)
        diff_assigned == Allocated(cs2, diff)
        cs3 == allocate(cs2, diff)
        diff_inv == invert(diff)
    IN  IF ~diff_inv.is_some THEN Return(cs3, NonExistingInverse)
        ELSE
        LET diff_inv_assigned == Allocated(cs3, diff_inv.value)
            cs4 == allocate(cs3, diff_inv.value)
            cs5 == add(cs4, one, diff_assigned.var, one, value.var, zero, None)
            one_var == NextVar(cs5)
            cs7 == add_witness_to_circuit_description(cs5, one)
            cs8 == poly_gate(cs7, diff_assigned.var, diff_inv_assigned.var, one_var,
                             one, zero, zero, Neg(one), zero, None)
        IN  Return(cs8, Ok)

\* The loop body taking the inverse without looking at is_some.
non_membership_step_unchecked(cs, elem, value) ==
    LET elem_assigned == NextVar(cs)
        cs1 == add_input(cs, elem)
        cs2 == constrain_to_constant(cs1, elem_assigned, elem, None)
        diff == Sub(elem, value.scalar)
        diff_assigned == Allocated(cs2, diff)
        cs3 == allocate(cs2, diff)
        diff_inv == invert(diff)
        diff_inv_assigned == Allocated(cs3, diff_inv.value)
        cs4 == allocate(cs3, diff_inv.value)
        value_plus_diff == NextVar(cs4)
        cs5 == add(cs4, one, diff_assigned.var, one, value.var, zero, None)
        cs6 == assert_equal(cs5, value_plus_diff, elem_assigned)
        one_var == NextVar(cs6)
        cs7 == add_witness_to_circuit_description(cs6, one)
        cs8 == poly_gate(cs7, diff_assigned.var, diff_inv_assigned.var, one_var,
                         one, zero, zero, Neg(one), zero, None)
    IN  Return(cs8, Ok)

\* One pass of the body of `for elem in vector.iter()`: the composer it leaves
\* and Ok, or NonExistingInverse where the body returns early.
non_membership_step(cs, elem, value) ==
    LET elem_assigned == NextVar(cs)
        cs1 == add_input(cs, elem)
        cs2 == constrain_to_constant(cs1, elem_assigned, elem, None)
        diff == Sub(elem, value.scalar)
        diff_assigned == Allocated(cs2, diff)
        cs3 == allocate(cs2, diff)
        diff_inv == invert(diff)
    IN  IF ~diff_inv.is_some THEN Return(cs3, NonExistingInverse)
        ELSE
        LET diff_inv_assigned == Allocated(cs3, diff_inv.value)
            cs4 == allocate(cs3, diff_inv.value)
            value_plus_diff == NextVar(cs4)
            cs5 == add(cs4, one, diff_assigned.var, one, value.var, zero, None)
            cs6 == assert_equal(cs5, value_plus_diff, elem_assigned)
            one_var == NextVar(cs6)
            cs7 == add_witness_to_circuit_description(cs6, one)
            cs8 == poly_gate(cs7, diff_assigned.var, diff_inv_assigned.var, one_var,
                             one, zero, zero, Neg(one), zero, None)
        IN  Return(cs8, Ok)

\* The loop from element i on.
RECURSIVE non_membership_loop(_, _, _, _)
non_membership_loop(cs, vector, value, i) ==
    IF i > Len(vector) THEN Return(cs, Ok)
    ELSE LET step == non_membership_step(cs, vector[i], value)
         IN  IF step.result # Ok THEN step
             ELSE non_membership_loop(step.cs, vector, value, i + 1)

\* vector_non_membership_gadget handing back, on failure, the composer it was
\* entered with.
vector_non_membership_gadget_rolling_back(cs, vector, value) ==
    LET looped == non_membership_loop(cs, vector, value, 1)
    IN  IF looped.result # Ok THEN Return(cs, looped.result) ELSE looped

vector_non_membership_gadget(cs, vector, value) ==
    non_membership_loop(cs, vector, value, 1)

\* The `for i in 0..vector.len()` fold: the composer and the accumulator Variable.
RECURSIVE sum_loop(_, _, _, _)
sum_loop(cs, vector, accumulator, i) ==
    IF i > Len(vector) THEN [cs |-> cs, accumulator |-> accumulator]
    ELSE sum_loop(add(cs, one, accumulator, one, vector[i].var, zero, None),
                  vector, NextVar(cs), i + 1)

\* vector_sum_gadget folding from the second element on.
vector_sum_gadget_skipping_first(cs, vector, expected_sum) ==
    LET folded == sum_loop(cs, vector, zero_var, 2)
    IN  Return(constrain_to_constant(folded.cs, folded.accumulator, zero,
                                     Neg(from(expected_sum))), Ok)

vector_sum_gadget(cs, vector, expected_sum) ==
    LET folded == sum_loop(cs, vector, zero_var, 1)
    IN  Return(constrain_to_constant(folded.cs, folded.accumulator, zero,
                                     Neg(from(expected_sum))), Ok)

RECURSIVE product_loop(_, _, _, _, _, _)
product_loop(cs, vector, bits_vector, value, accumulator, i) ==
    IF i > Len(vector) THEN [cs |-> cs, accumulator |-> accumulator]
    ELSE
    LET left == NextVar(cs)
        cs1 == mul(cs, one, vector[i].var, bits_vector[i].var, zero, None)
        right == NextVar(cs1)
        cs2 == mul(cs1, one, value.var, bits_vector[i].var, zero, None)
        cs3 == assert_equal(cs2, left, right)
        cs4 == add(cs3, one, accumulator, one, left, zero, None)
    IN  product_loop(cs4, vector, bits_vector, value, NextVar(cs3), i + 1)

\* vector_product_gadget without the closing assert_equal(accumulator, value.var).
vector_product_gadget_without_total(cs, vector, bits_vector, value) ==
    IF Len(vector) # Len(bits_vector) THEN Return(cs, Panic)
    ELSE Return(product_loop(cs, vector, bits_vector, value, zero_var, 1).cs, Ok)

\* vector_product_gadget looping over the shorter of the two vectors instead
\* of asserting that their lengths are equal.
vector_product_gadget_truncating(cs, vector, bits_vector, value) ==
    LET n == IF Len(vector) <= Len(bits_vector) THEN Len(vector) ELSE Len(bits_vector)
        folded == product_loop(cs, SubSeq(vector, 1, n), SubSeq(bits_vector, 1, n),
                               value, zero_var, 1)
    IN  Return(assert_equal(folded.cs, folded.accumulator, value.var), Ok)

vector_product_gadget(cs, vector, bits_vector, value) ==
    IF Len(vector) # Len(bits_vector) THEN Return(cs, Panic)
    ELSE
    LET folded == product_loop(cs, vector, bits_vector, value, zero_var, 1)
    IN  Return(assert_equal(folded.cs, folded.accumulator, value.var), Ok)

\* The first loop allocating the elements without constrain_to_constant.
RECURSIVE assign_set_unfixed(_, _, _)
assign_set_unfixed(cs, vector, i) ==
    IF i > Len(vector) THEN cs
    ELSE assign_set_unfixed(allocate(cs, vector[i]), vector, i + 1)

\* First loop of set_membership_gadget: allocate each element and fix it.
RECURSIVE assign_set(_, _, _)
assign_set(cs, vector, i) ==
    IF i > Len(vector) THEN cs
    ELSE assign_set(constrain_to_constant(allocate(cs, vector[i]), NextVar(cs), vector[i], None),
                    vector, i + 1)

\* bit_map marking only the first element equal to the value.
bit_map_first_match(vector, scalar) ==
    [i \in 1..Len(vector) |->
        IF vector[i] = scalar /\ \A j \in 1..(i - 1) : vector[j] # scalar THEN 1 ELSE 0]

bit_map(vector, scalar) ==
    [i \in 1..Len(vector) |-> IF vector[i] = scalar THEN 1 ELSE 0]

\* Second loop: allocate each bit and run bit_gadget on it.
RECURSIVE assign_bits(_, _, _)
assign_bits(cs, bits, i) ==
    IF i > Len(bits) THEN Return(cs, Ok)
    ELSE LET bit_assigned == Allocated(cs, from(bits[i]))
             constrained == bit_gadget(allocate(cs, from(bits[i])), bit_assigned)
         IN  IF constrained.result # Ok THEN Return(constrained.cs, Panic)
             ELSE assign_bits(constrained.cs, bits, i + 1)

\* set_membership_gadget returning after the sum of the indicators is
\* constrained, without the call of vector_product_gadget.
set_membership_gadget_without_product(cs, vector, assigned_value) ==
    LET n == Len(vector)
        cs1 == assign_set(cs, vector, 1)
        bits == bit_map(vector, assigned_value.scalar)
        assigned_bits == [i \in 1..n |->
                            [var |-> Len(cs1.witnesses) + 3 * (i - 1) + 1, scalar |-> from(bits[i])]]
        constrained == assign_bits(cs1, bits, 1)
        summed == vector_sum_gadget(constrained.cs, assigned_bits, 1)
    IN  IF constrained.result # Ok THEN Return(constrained.cs, Panic)
        ELSE IF summed.result # Ok THEN Return(summed.cs, Panic)
        ELSE Return(summed.cs, Ok)

\* The Variables the two loops allocate: one per element, then every third one
\* (a bit, its one_minus_x, its sum) per bit.
set_membership_gadget(cs, vector, assigned_value) ==
    LET n == Len(vector)
        assigned_set == AllocatedVector(cs, vector)
        cs1 == assign_set(cs, vector, 1)
        bits == bit_map(vector, assigned_value.scalar)
        assigned_bits == [i \in 1..n |->
                            [var |-> Len(cs1.witnesses) + 3 * (i - 1) + 1, scalar |-> from(bits[i])]]
        constrained == assign_bits(cs1, bits, 1)
        summed == vector_sum_gadget(constrained.cs, assigned_bits, 1)
        tied == vector_product_gadget(summed.cs, assigned_set, assigned_bits, assigned_value)
    IN  IF constrained.result # Ok THEN Return(constrained.cs, Panic)
        ELSE IF summed.result # Ok THEN Return(summed.cs, Panic)
        ELSE IF tied.result # Ok THEN Return(tied.cs, Panic)
        ELSE Return(tied.cs, Ok)

\* One pass of the inner loop body, for the pair (i, j).
uniqueness_step(cs, vector, i, j) ==
    LET diff == Sub(vector[i].scalar, vector[j].scalar)
        diff_assigned == Allocated(cs, diff)
        cs1 == allocate(cs, diff)
        diff_inv == invert(diff)
    IN  IF ~diff_inv.is_some THEN Return(cs1, NonExistingInverse)
        ELSE
        LET diff_inv_assigned == Allocated(cs1, diff_inv.value)
            cs2 == allocate(cs1, diff_inv.value)
            diff_plus_ith_elem == NextVar(cs2)
            cs3 == add(cs2, one, diff_assigned.var, one, vector[j].var, zero, None)
            cs4 == assert_equal(cs3, diff_plus_ith_elem, vector[i].var)
            one_var == NextVar(cs4)
            cs5 == add_witness_to_circuit_description(cs4, one)
            cs6 == poly_gate(cs5, diff_assigned.var, diff_inv_assigned.var, one_var,
                             one, zero, zero, Neg(one), zero, None)
        IN  Return(cs6, Ok)

\* The nested loops with the inner one written `for j in i..length` from the
\* second row on.
RECURSIVE uniqueness_loop_from_i(_, _, _, _)
uniqueness_loop_from_i(cs, vector, i, j) ==
    IF i > Len(vector) THEN Return(cs, Ok)
    ELSE IF j > Len(vector) THEN uniqueness_loop_from_i(cs, vector, i + 1, i + 1)
    ELSE LET step == uniqueness_step(cs, vector, i, j)
         IN  IF step.result # Ok THEN step
             ELSE uniqueness_loop_from_i(step.cs, vector, i, j + 1)

\* The nested loops `for i in 0..length { for j in (i + 1)..length` from (i, j) on.
RECURSIVE uniqueness_loop(_, _, _, _)
uniqueness_loop(cs, vector, i, j) ==
    IF i > Len(vector) THEN Return(cs, Ok)
    ELSE IF j > Len(vector) THEN uniqueness_loop(cs, vector, i + 1, i + 2)
    ELSE LET step == uniqueness_step(cs, vector, i, j)
         IN  IF step.result # Ok THEN step
             ELSE uniqueness_loop(step.cs, vector, i, j + 1)

set_uniqueness_gadget(cs, vector) ==
    IF ~(Len(vector) >= 2) THEN Return(cs, Panic)
    ELSE uniqueness_loop(cs, vector, 1, 2)

(* ------------------------------ callers ------------------------------- *)

\* Every vector of at most n field elements.
Vectors(n) == UNION {[1..k -> BlsScalar] : k \in 0..n}

\* Every bits_vector of at most n elements.
IndicatorVectors(n) == UNION {[1..k -> 0..MaxBit] : k \in 0..n}

\* u64 arguments; every u64 is below the field order.
U64 == 0..(P - 1)

NoVector == <<>>

\* What one gadget call was given, what it returned, and which part of the
\* composer it wrote: the witnesses and gates after position *_before up to
\* position *_after.  value_var, vector_vars and bits_vars are the Variables of
\* the binders the caller allocated for the call; entry is the composer the
\* gadget was entered with, exit the composer it left.
CallRecord(gadget, vector, bits_vector, value, expected_sum, value_var, vector_vars, bits_vars, before, returned) ==
    [gadget |-> gadget, vector |-> vector, bits_vector |-> bits_vector, value |-> value,
     expected_sum |-> expected_sum, value_var |-> value_var, vector_vars |-> vector_vars,
     bits_vars |-> bits_vars, result |-> returned.result,
     vars_before |-> Len(before.witnesses), gates_before |-> Len(before.gates),
     vars_after |-> Len(returned.cs.witnesses), gates_after |-> Len(returned.cs.gates),
     entry |-> before, exit |-> returned.cs]

Vars(allocated) == [i \in 1..Len(allocated) |-> allocated[i].var]

Done(p, returned, record) ==
    /\ composer' = [composer EXCEPT ![p] = returned.cs]
    /\ calls' = [calls EXCEPT ![p] = Append(@, record)]

\* A test case builds a fresh composer, allocates the inputs and runs one gadget.
Fresh(p) == calls[p] = <<>>

\* A circuit made of several gadgets runs them one after the other on its composer.
CanCall(p) == Len(calls[p]) < MaxCalls

CallBit(p, v) ==
    /\ CanCall(p)
    /\ LET x == Allocated(composer[p], v)
           cs == allocate(composer[p], v)
           returned == bit_gadget(cs, x)
       IN  Done(p, returned, CallRecord("bit_gadget", NoVector, NoVector, v, 0,
                                        x.var, NoVector, NoVector, cs, returned))

CallNonMembership(p, vector, witness) ==
    /\ CanCall(p)
    /\ LET v == Allocated(composer[p], witness)
           cs == allocate(composer[p], witness)
           returned == vector_non_membership_gadget(cs, vector, v)
       IN  Done(p, returned, CallRecord("vector_non_membership_gadget", vector, NoVector,
                                        witness, 0, v.var, NoVector, NoVector, cs, returned))

CallSum(p, vector, sum) ==
    /\ CanCall(p)
    /\ LET allocated_vector == AllocatedVector(composer[p], vector)
           cs == AllocateAll(composer[p], vector)
           returned == vector_sum_gadget(cs, allocated_vector, sum)
       IN  Done(p, returned, CallRecord("vector_sum_gadget", vector, NoVector, 0, sum,
                                        0, Vars(allocated_vector), NoVector, cs, returned))

CallProduct(p, vector, bits_vector, value) ==
    /\ CanCall(p)
    /\ LET allocated_vector == AllocatedVector(composer[p], vector)
           cs1 == AllocateAll(composer[p], vector)
           allocated_bits == AllocatedVector(cs1, bits_vector)
           cs2 == AllocateAll(cs1, bits_vector)
           assigned_value == Allocated(cs2, value)
           cs == allocate(cs2, value)
           returned == vector_product_gadget(cs, allocated_vector, allocated_bits, assigned_value)
       IN  Done(p, returned, CallRecord("vector_product_gadget", vector, bits_vector, value, 0,
                                        assigned_value.var, Vars(allocated_vector),
                                        Vars(allocated_bits), cs, returned))

CallMembership(p, set, value) ==
    /\ CanCall(p)
    /\ LET assigned_value == Allocated(composer[p], value)
           cs == allocate(composer[p], value)
           returned == set_membership_gadget(cs, set, assigned_value)
       IN  Done(p, returned, CallRecord("set_membership_gadget", set, NoVector, value, 0,
                                        assigned_value.var, NoVector, NoVector, cs, returned))

CallUniqueness(p, vector) ==
    /\ CanCall(p)
    /\ LET allocated_vector == AllocatedVector(composer[p], vector)
           cs == AllocateAll(composer[p], vector)
           returned == set_uniqueness_gadget(cs, allocated_vector)
       IN  Done(p, returned, CallRecord("set_uniqueness_gadget", vector, NoVector, 0, 0,
                                        0, Vars(allocated_vector), NoVector, cs, returned))

Init ==
    /\ composer = [p \in Party |-> NewComposer]
    /\ calls = [p \in Party |-> <<>>]

\* One party builds one circuit from one gadget.
Next ==
    \/ /\ Fresh("prover")
       /\ \E v \in BlsScalar : CallBit("prover", v)
    \/ /\ Fresh("prover")
       /\ \E vector \in Vectors(MaxLen), witness \in BlsScalar :
            CallNonMembership("prover", vector, witness)
    \/ /\ Fresh("prover")
       /\ \E vector \in Vectors(MaxLen), sum \in U64 : CallSum("prover", vector, sum)
    \/ /\ Fresh("prover")
       /\ \E vector \in Vectors(MaxProductLen), bits_vector \in IndicatorVectors(MaxProductLen),
             value \in BlsScalar : CallProduct("prover", vector, bits_vector, value)
    \/ /\ Fresh("prover")
       /\ \E set \in Vectors(MaxLen), value \in BlsScalar : CallMembership("prover", set, value)
    \/ /\ Fresh("prover")
       /\ \E vector \in Vectors(MaxUniqueLen) : CallUniqueness("prover", vector)

Spec == Init /\ [][Next]_vars

\* The prover and the verifier each build the circuit of a public-set gadget
\* from their own view of the vector and their own candidate value.
NextParties ==
    \/ \E p \in Party :
        /\ Fresh(p)
        /\ \E vector \in Vectors(MaxPartyLen), witness \in BlsScalar :
                CallNonMembership(p, vector, witness)
    \/ \E p \in Party :
        /\ Fresh(p)
        /\ \E set \in Vectors(MaxPartyLen), value \in BlsScalar :
                CallMembership(p, set, value)

SpecParties == Init /\ [][NextParties]_vars

\* The vectors and values of the circuits built from several gadgets: the
\* test cases' {3, 4}, a vector whose last pair repeats, and the empty one.
SequenceVectors == {<<>>, <<3, 4>>, <<4, 3, 3>>}

SequenceValues == {3, 4}

SequenceBits == {<<1, 0>>}

\* The prover runs gadgets one after the other on one composer, whatever the
\* earlier ones returned.
NextSequence ==
    \/ /\ CanCall("prover")
       /\ \E v \in SequenceValues : CallBit("prover", v)
    \/ /\ CanCall("prover")
       /\ \E vector \in SequenceVectors, witness \in SequenceValues :
            CallNonMembership("prover", vector, witness)
    \/ /\ CanCall("prover")
       /\ \E vector \in SequenceVectors, sum \in SequenceValues : CallSum("prover", vector, sum)
    \/ /\ CanCall("prover")
       /\ \E vector \in SequenceVectors, bits_vector \in SequenceBits, value \in SequenceValues :
            CallProduct("prover", vector, bits_vector, value)
    \/ /\ CanCall("prover")
       /\ \E set \in SequenceVectors, value \in SequenceValues : CallMembership("prover", set, value)
    \/ /\ CanCall("prover")
       /\ \E vector \in SequenceVectors : CallUniqueness("prover", vector)

SpecSequence == Init /\ [][NextSequence]_vars

(* ------------------------------ satisfaction -------------------------- *)

\* The gate equation qM*a*b + qL*a + qR*b + qO*c + qC + PI = 0 under the
\* assignment w of values to Variables.
GateHolds(g, w) ==
    (g.qM * w[g.a] * w[g.b] + g.qL * w[g.a] + g.qR * w[g.b] + g.qO * w[g.c] + g.qC + g.pi) % P = 0

AllCalls == UNION {{<<p, k>> : k \in 1..Len(calls[p])} : p \in Party}

CallOf(pk) == calls[pk[1]][pk[2]]

\* The positions of the gates the call appended.
EmittedAt(c) == (c.gates_before + 1)..c.gates_after

\* The gates the call appended hold under the witnesses the builder assigned.
EmittedSatisfied(pk) ==
    \A g \in EmittedAt(CallOf(pk)) :
        GateHolds(composer[pk[1]].gates[g], composer[pk[1]].witnesses)

CallsOf(gadget) == {pk \in AllCalls : CallOf(pk).gadget = gadget}

(* ------------------------------ C1 ------------------------------------ *)

\* C1: the constraints bit_gadget appends for a variable holding v (with
\* one_minus_x allocated as 1 - v) are satisfied iff v is 0 or v is 1.
C1_BitSatisfiedIffBit ==
    \A pk \in CallsOf("bit_gadget") :
        EmittedSatisfied(pk) <=> CallOf(pk).value \in {0, 1}

\* bit_gadget has run on a variable holding 2 and its constraints do not hold.
C1_Witness ==
    \E pk \in CallsOf("bit_gadget") : CallOf(pk).value = 2 /\ ~EmittedSatisfied(pk)

(* ------------------------------ C2 ------------------------------------ *)

Max3(x, y, z) == IF x >= y /\ x >= z THEN x ELSE IF y >= z THEN y ELSE z

\* Every assignment of values to the Variables 1..k under which each gate of
\* the set G that reads no Variable beyond k holds.
RECURSIVE Assignments(_, _)
Assignments(G, k) ==
    IF k = 0 THEN {<<>>}
    ELSE {w \in {Append(u, x) : u \in Assignments(G, k - 1), x \in BlsScalar} :
            \A g \in G : Max3(g.a, g.b, g.c) = k => GateHolds(g, w)}

\* The gates the call appended, as a set.
EmittedGates(pk) == {composer[pk[1]].gates[g] : g \in EmittedAt(CallOf(pk))}

\* The assignments to all the composer's Variables that satisfy the gates the
\* call appended: the builder's own, and any a cheating builder could pick.
SatisfyingAssignments(pk) == Assignments(EmittedGates(pk), CallOf(pk).vars_after)

InVector(vector, x) == \E i \in 1..Len(vector) : vector[i] = x

\* C2: whatever values the witness variables are given, the constraints of a
\* successful vector_non_membership_gadget call hold only if the value variable
\* differs from every element of the vector.
C2_NonMembershipSound ==
    \A pk \in CallsOf("vector_non_membership_gadget") :
        CallOf(pk).result = Ok =>
            \A w \in SatisfyingAssignments(pk) :
                ~InVector(CallOf(pk).vector, w[CallOf(pk).value_var])

\* A successful call on a vector of two elements whose constraints are also
\* satisfied by an assignment giving the value variable another value than the
\* builder's.
C2_Witness ==
    \E pk \in CallsOf("vector_non_membership_gadget") :
        /\ CallOf(pk).result = Ok
        /\ Len(CallOf(pk).vector) = 2
        /\ \E w \in SatisfyingAssignments(pk) :
                w[CallOf(pk).value_var] # CallOf(pk).value

(* ------------------------------ C3 ------------------------------------ *)

\* C3: vector_non_membership_gadget returns NonExistingInverse iff an element
\* of the vector equals the value; otherwise it returns Ok and the witnesses it
\* assigned satisfy every constraint it appended (duplicates and the empty
\* vector included).
C3_NonMembershipResult ==
    \A pk \in CallsOf("vector_non_membership_gadget") :
        /\ CallOf(pk).result \in {Ok, NonExistingInverse}
        /\ CallOf(pk).result = NonExistingInverse
                <=> InVector(CallOf(pk).vector, CallOf(pk).value)
        /\ CallOf(pk).result = Ok => EmittedSatisfied(pk)

\* Ok on a vector holding the same element twice, with gates appended and held.
C3_Witness ==
    \E pk \in CallsOf("vector_non_membership_gadget") :
        /\ CallOf(pk).result = Ok
        /\ Len(CallOf(pk).vector) >= 2
        /\ CallOf(pk).vector[1] = CallOf(pk).vector[2]
        /\ EmittedAt(CallOf(pk)) # {}
        /\ EmittedSatisfied(pk)

(* ------------------------------ C4 ------------------------------------ *)

\* The sum of the elements as a natural number.
RECURSIVE NatSum(_)
NatSum(vector) == IF vector = <<>> THEN 0 ELSE Head(vector) + NatSum(Tail(vector))

\* C4: the constraints vector_sum_gadget appends are satisfied iff the sum of
\* the vector's values modulo the field prime equals expected_sum; for a
\* zero-length vector, iff expected_sum is 0.
C4_SumSatisfiedIffSum ==
    \A pk \in CallsOf("vector_sum_gadget") :
        /\ EmittedSatisfied(pk) <=> NatSum(CallOf(pk).vector) % P = CallOf(pk).expected_sum
        /\ CallOf(pk).vector = <<>> => (EmittedSatisfied(pk) <=> CallOf(pk).expected_sum = 0)

\* A satisfied sum whose total wraps around the field prime.
C4_Witness ==
    \E pk \in CallsOf("vector_sum_gadget") :
        /\ NatSum(CallOf(pk).vector) >= P
        /\ EmittedSatisfied(pk)

(* ------------------------------ C5 ------------------------------------ *)

Count(vector, x) == Cardinality({i \in 1..Len(vector) : vector[i] = x})

\* C5: the constraints set_membership_gadget builds are satisfied by the
\* witnesses the builder assigns iff the value occurs exactly once in the
\* vector; absent and duplicated values both leave the circuit unsatisfied.
C5_MembershipSatisfiedIffOnce ==
    \A pk \in CallsOf("set_membership_gadget") :
        EmittedSatisfied(pk) <=> Count(CallOf(pk).vector, CallOf(pk).value) = 1

\* A value occurring twice in the set, and the circuit built for it unsatisfied.
C5_Witness ==
    \E pk \in CallsOf("set_membership_gadget") :
        /\ Count(CallOf(pk).vector, CallOf(pk).value) = 2
        /\ ~EmittedSatisfied(pk)

(* ------------------------------ C6 ------------------------------------ *)

Pairs(n) == {ij \in (1..n) \X (1..n) : ij[1] < ij[2]}

\* At position g of the gate list G stand, in the order the loop body appends
\* them: the gate diff + vj = sum, the gate sum = vi, the gate fixing a
\* Variable to 1 and the gate diff * diff_inv - that Variable = 0.
PairGatesAt(G, g, vi, vj) ==
    /\ g + 3 <= Len(G)
    /\ G[g] = Gate(G[g].a, vj, G[g].c, zero, one, one, Neg(one), zero, None)
    /\ G[g + 1] = Gate(G[g].c, vi, zero_var, zero, one, Neg(one), zero, zero, None)
    /\ G[g + 2] = Gate(G[g + 3].c, G[g + 3].c, G[g + 3].c, zero, one, zero, zero, Neg(one), None)
    /\ G[g + 3] = Gate(G[g].a, G[g + 3].b, G[g + 3].c, one, zero, zero, Neg(one), zero, None)

HasEqualPair(vector) == \E ij \in Pairs(Len(vector)) : vector[ij[1]] = vector[ij[2]]

\* C6: for a vector of length n >= 2, set_uniqueness_gadget returns
\* NonExistingInverse iff two elements at distinct positions are equal;
\* otherwise it returns Ok having appended, for each of the n(n-1)/2 pairs
\* i < j exactly once, the tie diff + vector[j] = vector[i] and the gate
\* diff * diff_inv = 1, and nothing else, all satisfied by its witnesses.
C6_UniquenessResult ==
    \A pk \in CallsOf("set_uniqueness_gadget") :
        LET c == CallOf(pk)
            n == Len(c.vector)
            G == composer[pk[1]].gates
        IN  n >= 2 =>
            /\ c.result \in {Ok, NonExistingInverse}
            /\ c.result = NonExistingInverse <=> HasEqualPair(c.vector)
            /\ c.result = Ok =>
                /\ \A ij \in Pairs(n) :
                      Cardinality({g \in EmittedAt(c) :
                            PairGatesAt(G, g, c.vector_vars[ij[1]], c.vector_vars[ij[2]])}) = 1
                /\ 2 * (c.gates_after - c.gates_before) = 4 * n * (n - 1)
                /\ EmittedSatisfied(pk)

\* Ok on three pairwise distinct elements: three pairs, twelve gates.
C6_Witness ==
    \E pk \in CallsOf("set_uniqueness_gadget") :
        /\ Len(CallOf(pk).vector) = 3
        /\ CallOf(pk).result = Ok
        /\ CallOf(pk).gates_after - CallOf(pk).gates_before = 12
        /\ EmittedSatisfied(pk)

(* ------------------------------ C8 ------------------------------------ *)

\* A difference the gadget computes is zero.
ZeroDifference(c) ==
    \/ /\ c.gadget = "vector_non_membership_gadget"
       /\ \E i \in 1..Len(c.vector) : Sub(c.vector[i], c.value) = zero
    \/ /\ c.gadget = "set_uniqueness_gadget"
       /\ \E ij \in Pairs(Len(c.vector)) : Sub(c.vector[ij[1]], c.vector[ij[2]]) = zero

\* C8: NonExistingInverse is the only error a gadget returns, and it is
\* returned exactly when a computed difference is zero; bit_gadget,
\* vector_sum_gadget, vector_product_gadget (equal lengths) and
\* set_membership_gadget return Ok for every input.
C8_OnlyNonExistingInverse ==
    \A pk \in AllCalls :
        LET c == CallOf(pk)
        IN  /\ c.result \in {Ok, NonExistingInverse, Panic}
            /\ c.result = NonExistingInverse <=> ZeroDifference(c)
            /\ c.gadget \in {"bit_gadget", "vector_sum_gadget", "set_membership_gadget"}
                    => c.result = Ok
            /\ c.gadget = "vector_product_gadget" /\ Len(c.vector) = Len(c.bits_vector)
                    => c.result = Ok

\* Ok returned for a false statement: a non-bit handed to bit_gadget, whose
\* constraints then do not hold.
C8_Witness ==
    \E pk \in CallsOf("bit_gadget") :
        /\ CallOf(pk).value \notin {0, 1}
        /\ CallOf(pk).result = Ok
        /\ ~EmittedSatisfied(pk)

(* ------------------------------ C10 ----------------------------------- *)

AllBits(bits_vector) == \A i \in 1..Len(bits_vector) : bits_vector[i] \in {0, 1}

\* C10: for equal-length vector and bits, every bit in {0,1}, the constraints
\* vector_product_gadget appends are satisfied iff vector[i] = value wherever
\* bits[i] = 1 and the number k of set bits has (k - 1) * value = 0 in the
\* field; so a nonzero value needs exactly one set bit, and value = 0 is
\* accepted with any number of set bits, none included.
C10_ProductSatisfiedIff ==
    \A pk \in CallsOf("vector_product_gadget") :
        LET c == CallOf(pk)
            k == Count(c.bits_vector, 1)
            selected == \A i \in 1..Len(c.vector) : c.bits_vector[i] = 1 => c.vector[i] = c.value
        IN  Len(c.vector) = Len(c.bits_vector) /\ AllBits(c.bits_vector) =>
            /\ EmittedSatisfied(pk) <=> (selected /\ ((k + P - 1) * c.value) % P = 0)
            /\ EmittedSatisfied(pk) /\ c.value # 0 => k = 1
            /\ selected /\ c.value = 0 => EmittedSatisfied(pk)

\* value = 0 accepted with two indicators set.
C10_Witness ==
    \E pk \in CallsOf("vector_product_gadget") :
        /\ CallOf(pk).value = 0
        /\ CallOf(pk).bits_vector = <<1, 1>>
        /\ Len(CallOf(pk).vector) = 2
        /\ EmittedSatisfied(pk)

(* ------------------------------ C7 ------------------------------------ *)

\* The circuit description of a composer: every gate's wiring and selector
\* coefficients (the fixed constants are the qC), without the witness values
\* and without the public inputs.
Description(cs) ==
    [g \in 1..Len(cs.gates) |->
        [a |-> cs.gates[g].a, b |-> cs.gates[g].b, c |-> cs.gates[g].c,
         qM |-> cs.gates[g].qM, qL |-> cs.gates[g].qL, qR |-> cs.gates[g].qR,
         qO |-> cs.gates[g].qO, qC |-> cs.gates[g].qC]]

\* Every gate of the composer holds under the composer's own witnesses and
\* public inputs.
Satisfied(cs) == \A g \in 1..Len(cs.gates) : GateHolds(cs.gates[g], cs.witnesses)

\* The prover's proof, with the prover's public inputs, checked against the
\* circuit the verifier preprocessed.
Verifies ==
    /\ Description(composer["prover"]) = Description(composer["verifier"])
    /\ Satisfied(composer["prover"])

\* Both parties have built, successfully, the circuit of the same public-set gadget.
BothBuilt ==
    /\ calls["prover"] # <<>>
    /\ calls["verifier"] # <<>>
    /\ calls["prover"][1].gadget = calls["verifier"][1].gadget
    /\ calls["prover"][1].gadget \in {"vector_non_membership_gadget", "set_membership_gadget"}
    /\ calls["prover"][1].result = Ok
    /\ calls["verifier"][1].result = Ok

IsMulGate(g) ==
    g = Gate(g.a, g.b, g.c, one, zero, zero, Neg(one), zero, None)

\* At position g of the gate list G stand the four gates one pass of the loop
\* of vector_product_gadget appends for the element Variable v, the indicator
\* Variable bit and the value Variable: v * bit = left, value * bit = right,
\* left = right, and accumulator + left = the next accumulator.
ProductGatesAt(G, g, v, bit, value_var, accumulator) ==
    /\ g + 3 <= Len(G)
    /\ G[g] = Gate(v, bit, G[g].c, one, zero, zero, Neg(one), zero, None)
    /\ G[g + 1] = Gate(value_var, bit, G[g + 1].c, one, zero, zero, Neg(one), zero, None)
    /\ G[g + 2] = Gate(G[g].c, G[g + 1].c, zero_var, zero, one, Neg(one), zero, zero, None)
    /\ G[g + 3] = Gate(accumulator, G[g].c, G[g + 3].c, zero, one, one, Neg(one), zero, None)

\* The accumulator Variable after i passes of the product loop whose gates
\* start at position first.
ProductAccumulator(G, first, i) == IF i = 0 THEN zero_var ELSE G[first + 4 * (i - 1) + 3].c

\* C11 as claimed: set_membership_gadget stops after constraining the sum of
\* the indicators to 1: n fixing gates, three gates per indicator, n additions
\* and the sum constraint, and among them no product gate and no equality
\* with the value.
C11_StopsAfterSum ==
    \A pk \in CallsOf("set_membership_gadget") :
        LET c == CallOf(pk)
            G == composer[pk[1]].gates
        IN  /\ c.gates_after - c.gates_before = 5 * Len(c.vector) + 1
            /\ \A g \in EmittedAt(c) :
                    /\ ~IsMulGate(G[g])
                    /\ G[g] # Gate(G[g].a, c.value_var, zero_var, zero, one, Neg(one), zero, zero, None)

\* C11, amended: after fixing the n elements, bit-constraining the n
\* indicators and constraining their sum to 1 (5n + 1 gates),
\* set_membership_gadget runs vector_product_gadget on the fixed elements: it
\* appends, for every element, vector[i] * bits[i] = value * bits[i] and its
\* accumulation, and last the equality of the accumulated products with the
\* value; 9n + 2 gates in all.
C11_MembershipTiesProduct ==
    \A pk \in CallsOf("set_membership_gadget") :
        LET c == CallOf(pk)
            n == Len(c.vector)
            G == composer[pk[1]].gates
            first == c.gates_before + 5 * n + 2
        IN  /\ c.gates_after - c.gates_before = 9 * n + 2
            /\ \A i \in 1..n :
                    ProductGatesAt(G, first + 4 * (i - 1),
                                   c.vars_before + i, c.vars_before + n + 3 * (i - 1) + 1,
                                   c.value_var, ProductAccumulator(G, first, i - 1))
            /\ G[c.gates_after] = Gate(ProductAccumulator(G, first, n), c.value_var, zero_var,
                                       zero, one, Neg(one), zero, zero, None)

\* A membership circuit over two elements: twenty gates, two of them
\* multiplications by the value.
C11_Witness ==
    \E pk \in CallsOf("set_membership_gadget") :
        /\ Len(CallOf(pk).vector) = 2
        /\ CallOf(pk).gates_after - CallOf(pk).gates_before = 20
        /\ Cardinality({g \in EmittedAt(CallOf(pk)) :
                /\ IsMulGate(composer[pk[1]].gates[g])
                /\ composer[pk[1]].gates[g].a = CallOf(pk).value_var}) = 2

(* ------------------------------ C12 ----------------------------------- *)

\* The call breaks a precondition of its gadget.
Malformed(c) ==
    \/ c.gadget = "vector_product_gadget" /\ Len(c.vector) # Len(c.bits_vector)
    \/ c.gadget = "set_uniqueness_gadget" /\ Len(c.vector) < 2

\* C12: vector_product_gadget given vectors of different lengths and
\* set_uniqueness_gadget given fewer than two elements abort on their
\* assertion, and only they do: they return neither Ok nor
\* NonExistingInverse, and leave the composer as they found it, with no
\* Variable allocated and no gate appended.
C12_MalformedFailsFast ==
    \A pk \in AllCalls :
        LET c == CallOf(pk)
        IN  /\ Malformed(c) <=> c.result = Panic
            /\ Malformed(c) =>
                /\ c.result \notin {Ok, NonExistingInverse}
                /\ c.exit = c.entry
                /\ c.vars_after = c.vars_before
                /\ c.gates_after = c.gates_before
                /\ pk[2] = Len(calls[pk[1]]) => composer[pk[1]] = c.entry

\* vector_product_gadget has aborted on two elements and one indicator.
C12_Witness ==
    \E pk \in CallsOf("vector_product_gadget") :
        /\ Len(CallOf(pk).vector) = 2
        /\ Len(CallOf(pk).bits_vector) = 1
        /\ CallOf(pk).result = Panic
        /\ composer[pk[1]] = CallOf(pk).entry

(* ------------------------------ C13 ----------------------------------- *)

IsPrefix(s, t) == Len(s) <= Len(t) /\ SubSeq(t, 1, Len(s)) = s

\* The composer cs extended to the composer ds: nothing allocated or appended
\* before is changed or removed.
Extends(ds, cs) == IsPrefix(cs.gates, ds.gates) /\ IsPrefix(cs.witnesses, ds.witnesses)

\* A gate diff * diff_inv - 1 = 0 as the two inverse-trick loops append it.
IsInverseGate(g) ==
    g = Gate(g.a, g.b, g.c, one, zero, zero, Neg(one), zero, None) /\ g.a # g.b

\* The position of the first element of the vector equal to the value.
FirstOffending(vector, value) ==
    CHOOSE f \in 1..Len(vector) :
        vector[f] = value /\ \A i \in 1..(f - 1) : vector[i] # value

\* The pairs the nested loops visit before the pair ij.
PairsBefore(n, ij) ==
    {kl \in Pairs(n) : kl[1] < ij[1] \/ (kl[1] = ij[1] /\ kl[2] < ij[2])}

\* The first pair of equal elements in the order the loops visit the pairs.
FirstOffendingPair(vector) ==
    CHOOSE ij \in Pairs(Len(vector)) :
        /\ vector[ij[1]] = vector[ij[2]]
        /\ \A kl \in PairsBefore(Len(vector), ij) : vector[kl[1]] # vector[kl[2]]

\* The gates the call appended are where it put them in the composer now.
StillPresent(pk) ==
    \A g \in EmittedAt(CallOf(pk)) : composer[pk[1]].gates[g] = CallOf(pk).exit.gates[g]

\* A failed vector_non_membership_gadget call keeps the five gates of each
\* earlier element, those of a call on the earlier elements alone, and adds
\* the fixing gate of the offending element and no inverse gate for it.
NonMembershipFailureKeeps(pk) ==
    LET c == CallOf(pk)
        f == FirstOffending(c.vector, c.value)
        earlier == vector_non_membership_gadget(c.entry, SubSeq(c.vector, 1, f - 1),
                                                [var |-> c.value_var, scalar |-> c.value])
    IN  /\ c.gates_after - c.gates_before = 5 * (f - 1) + 1
        /\ c.vars_after - c.vars_before = 5 * (f - 1) + 2
        /\ earlier.result = Ok
        /\ Extends(c.exit, earlier.cs)
        /\ Cardinality({g \in EmittedAt(c) : IsInverseGate(c.exit.gates[g])}) = f - 1
        /\ c.exit.gates[c.gates_after]
                = Gate(c.vars_after - 1, c.vars_after - 1, c.vars_after - 1,
                       zero, one, zero, zero, Neg(c.value), None)
        /\ StillPresent(pk)

\* A failed set_uniqueness_gadget call keeps the four gates of each earlier
\* pair and appends nothing for the offending pair.
UniquenessFailureKeeps(pk) ==
    LET c == CallOf(pk)
        ij == FirstOffendingPair(c.vector)
        t == Cardinality(PairsBefore(Len(c.vector), ij))
    IN  /\ c.gates_after - c.gates_before = 4 * t
        /\ c.vars_after - c.vars_before = 4 * t + 1
        /\ \A kl \in PairsBefore(Len(c.vector), ij) :
                \E g \in EmittedAt(c) :
                    PairGatesAt(c.exit.gates, g, c.vector_vars[kl[1]], c.vector_vars[kl[2]])
        /\ Cardinality({g \in EmittedAt(c) : IsInverseGate(c.exit.gates[g])}) = t
        /\ StillPresent(pk)

FailuresKeepEarlier ==
    \A pk \in AllCalls :
        /\ Extends(CallOf(pk).exit, CallOf(pk).entry)
        /\ CallOf(pk).result = NonExistingInverse =>
            /\ CallOf(pk).gadget = "vector_non_membership_gadget" => NonMembershipFailureKeeps(pk)
            /\ CallOf(pk).gadget = "set_uniqueness_gadget" => UniquenessFailureKeeps(pk)

\* C13: over any sequence of gadget calls on one composer the gate list and
\* the allocations only grow, the state before a call being a prefix of the
\* state after it, also when the call fails; and a call that returns
\* NonExistingInverse at the first offending element or pair leaves every
\* gate of the earlier elements or pairs in place and has appended no
\* diff * diff_inv = 1 gate for the offending one.
C13_OnlyGrows ==
    /\ [][\A p \in Party : Extends(composer'[p], composer[p])]_vars
    /\ []FailuresKeepEarlier

\* The second call on a composer, vector_non_membership_gadget, has failed at
\* the second element of the vector, and the gates of its first element stand
\* after those of the first call.
C13_Witness ==
    /\ Len(calls["prover"]) = 2
    /\ calls["prover"][1].gates_after > calls["prover"][1].gates_before
    /\ calls["prover"][2].gadget = "vector_non_membership_gadget"
    /\ calls["prover"][2].result = NonExistingInverse
    /\ FirstOffending(calls["prover"][2].vector, calls["prover"][2].value) = 2
    /\ calls["prover"][2].gates_after - calls["prover"][2].gates_before = 6

====
